---- MODULE Spec2Model ----
(***************************************************************************)
(* pyTrivia: the OpenTriviaDB client (pytrivia/client.py), its exceptions  *)
(* (pytrivia/exceptions.py) and the Question value (pytrivia/question.py). *)
(*                                                                         *)
(* The Client object is the state: self.token and                          *)
(* self._categories_and_ids.  The constructor and get_questions are        *)
(* modelled one Transport call (_request_resource) per step; the remote    *)
(* service is the environment and answers every request with any response  *)
(* of a small response set.                                                *)
(***************************************************************************)
EXTENDS Integers, Sequences, FiniteSets, TLC

VARIABLES
    ctor,                 \* the frame of Client.__init__: pc, log, exc
    token,                \* self.token
    categories_and_ids,   \* self._categories_and_ids (dict, insertion order)
    calls                 \* the frame of get_questions of every caller

vars == <<ctor, token, categories_and_ids, calls>>

-----------------------------------------------------------------------------
(* Bounds of the model *)

\* longest results list the service returns
MaxResults == 2

-----------------------------------------------------------------------------
(* Python values: a value carries its type, == is False across types       *)
(* (bool is a subclass of int: True == 1).                                 *)

PyInt(n) == [type |-> "int", val |-> n]
PyBool(b) == [type |-> "bool", val |-> IF b THEN 1 ELSE 0]
PyStr(s) == [type |-> "str", val |-> s]
PyFloat(s) == [type |-> "float", val |-> s]
PyNone == [type |-> "NoneType", val |-> 0]
\* an attribute the object does not have
NoAttr == [type |-> "<no attribute>", val |-> 0]

\* isinstance(v, int)
IsInstanceInt(v) == v.type \in {"int", "bool"}

\* a == b
PyEq(a, b) ==
    IF IsInstanceInt(a) /\ IsInstanceInt(b) THEN a.val = b.val
    ELSE a.type = b.type /\ a.val = b.val

Digit(d) ==
    CASE d = 0 -> "0" [] d = 1 -> "1" [] d = 2 -> "2" [] d = 3 -> "3"
      [] d = 4 -> "4" [] d = 5 -> "5" [] d = 6 -> "6" [] d = 7 -> "7"
      [] d = 8 -> "8" [] d = 9 -> "9"

RECURSIVE NatStr(_)
NatStr(n) == IF n < 10 THEN Digit(n) ELSE NatStr(n \div 10) \o Digit(n % 10)

\* str(n) of an int: the decimal digits, "-" first when negative
Str(n) == IF n < 0 THEN "-" \o NatStr(0 - n) ELSE NatStr(n)

\* '%i' % v of an int (or bool)
FormatI(v) == Str(v.val)

-----------------------------------------------------------------------------
(* pytrivia/exceptions.py *)

Exception(kind, code, status_code, message) ==
    [kind |-> kind, code |-> code, status_code |-> status_code, message |-> message]

NoResults ==
    Exception("NoResults", PyInt(1), NoAttr,
        "Could not return results. The OpenTriviaDB API doesn't have enough questions for your query.")

InvalidParameter ==
    Exception("InvalidParameter", PyInt(2), NoAttr,
        "Contains an invalid parameter. Arguments passed in aren't valid.")

TokenNotFound ==
    Exception("TokenNotFound", PyInt(3), NoAttr, "Session Token does not exist.")

TokenEmpty ==
    Exception("TokenEmpty", PyInt(4), NoAttr,
        "Session Token has returned all possible questions for the specified query. "
        \o "Resetting the Token is necessary.")

\* UnexpectedResponseCode(code): self.code = code
UnexpectedResponseCode(code) ==
    Exception("UnexpectedResponseCode", code, NoAttr,
        "Unexpected OpenTriviaDB response code received: " \o code.val)

\* HttpError(status_code, message)
HttpError(status_code, message) ==
    Exception("HttpError", NoAttr, PyInt(status_code), message)

\* the built-in exceptions raised by get_questions and by response.json()
TypeError(message) == Exception("TypeError", NoAttr, NoAttr, message)
ValueError == Exception("ValueError", NoAttr, NoAttr, "")
NoException == Exception("", NoAttr, NoAttr, "")

-----------------------------------------------------------------------------
(* pytrivia/question.py *)

LowerCase == <<"a", "b", "c", "d", "e", "f", "g", "h", "i", "j", "k", "l", "m",
               "n", "o", "p", "q", "r", "s", "t", "u", "v", "w", "x", "y", "z">>
UpperCase == <<"A", "B", "C", "D", "E", "F", "G", "H", "I", "J", "K", "L", "M",
               "N", "O", "P", "Q", "R", "S", "T", "U", "V", "W", "X", "Y", "Z">>

ToUpper(c) ==
    IF \E i \in DOMAIN LowerCase : LowerCase[i] = c
    THEN UpperCase[CHOOSE i \in DOMAIN LowerCase : LowerCase[i] = c]
    ELSE c

ToLower(c) ==
    IF \E i \in DOMAIN UpperCase : UpperCase[i] = c
    THEN LowerCase[CHOOSE i \in DOMAIN UpperCase : UpperCase[i] = c]
    ELSE c

RECURSIVE Lowered(_)
Lowered(s) == IF s = "" THEN "" ELSE ToLower(Head(s)) \o Lowered(Tail(s))

\* str.capitalize(): first character upper-cased, the rest lower-cased
Capitalize(s) == IF s = "" THEN "" ELSE ToUpper(Head(s)) \o Lowered(Tail(s))

\* the character references html.unescape replaces, of those the service sends
Entities == <<
    <<"&amp;", "&">>, <<"&quot;", "\"">>, <<"&lt;", "<">>, <<"&gt;", ">">>,
    <<"&#039;", "'">> >>

StartsWith(s, p) == Len(s) >= Len(p) /\ SubSeq(s, 1, Len(p)) = p

\* html.unescape(s): one pass, left to right; a replacement is not rescanned
RECURSIVE Unescape(_)
Unescape(s) ==
    IF s = "" THEN ""
    ELSE IF \E i \in DOMAIN Entities : StartsWith(s, Entities[i][1])
    THEN LET i == CHOOSE j \in DOMAIN Entities : StartsWith(s, Entities[j][1])
         IN  Entities[i][2] \o Unescape(SubSeq(s, Len(Entities[i][1]) + 1, Len(s)))
    ELSE Head(s) \o Unescape(Tail(s))

\* Question(**question)
Question(raw) ==
    [category |-> raw.category,
     type |-> Capitalize(raw.type),
     difficulty |-> Capitalize(raw.difficulty),
     question |-> Unescape(raw.question),
     correct_answer |-> Unescape(raw.correct_answer),
     incorrect_answers |->
        [i \in DOMAIN raw.incorrect_answers |-> Unescape(raw.incorrect_answers[i])]]

-----------------------------------------------------------------------------
(* The remote service: what it may answer to a GET *)

MAIN_URL == "https://opentdb.com/"
API_URL == MAIN_URL \o "api.php"
TOKEN_URL == MAIN_URL \o "api_token.php"
ALL_CATEGORIES_URL == MAIN_URL \o "api_category.php"

\* a url: the base and the query parameters in the order they are written
Url(base, query) == [base |-> base, query |-> query]

HasParam(url, key) == \E i \in DOMAIN url.query : url.query[i][1] = key
Param(url, key) == url.query[CHOOSE i \in DOMAIN url.query : url.query[i][1] = key][2]

StatusCodes == {200, 201, 299, 404}

Reason(status_code) ==
    CASE status_code = 200 -> "OK"
      [] status_code = 201 -> "Created"
      [] status_code = 404 -> "Not Found"
      [] status_code = 500 -> "Internal Server Error"
      [] OTHER -> ""

ResponseCodes == {-1, 0, 1, 2, 3, 4, 5, 99}

ServiceTokens == {"tokenA", "tokenB"}

RawRecords == {
    [category |-> "Sports", type |-> "multiple", difficulty |-> "easy",
     question |-> "A &amp; B?", correct_answer |-> "X",
     incorrect_answers |-> <<"Y", "Z">>],
    [category |-> "History", type |-> "boolean", difficulty |-> "hard",
     question |-> "&quot;Q&quot; &lt; 1", correct_answer |-> "True",
     incorrect_answers |-> <<"False">>] }

ResultLists == UNION {[1..n -> RawRecords] : n \in 0..MaxResults}

CategoryLists == {
    <<[id |-> 21, name |-> "Sports"]>>,
    <<[id |-> 9, name |-> "History"], [id |-> 21, name |-> "Sports"],
      [id |-> 23, name |-> "History"]>> }

\* a response body: not JSON, or a JSON document with the keys it has
Document(has_rc, response_code, tok, results, trivia_categories) ==
    [valid |-> TRUE, has_rc |-> has_rc, response_code |-> response_code,
     token |-> tok, results |-> results, trivia_categories |-> trivia_categories]

NotJson ==
    [valid |-> FALSE, has_rc |-> FALSE, response_code |-> 0,
     token |-> "", results |-> <<>>, trivia_categories |-> <<>>]

QuestionDocuments ==
    {Document(TRUE, 0, "", r, <<>>) : r \in ResultLists}
    \cup {Document(TRUE, rc, "", <<>>, <<>>) : rc \in ResponseCodes \ {0}}

TokenDocuments ==
    {Document(TRUE, 0, tok, <<>>, <<>>) : tok \in ServiceTokens}
    \cup {Document(TRUE, rc, "", <<>>, <<>>) : rc \in ResponseCodes \ {0}}

\* api_category.php sends no response_code; one that did would not be looked at
CategoryDocuments ==
    {Document(FALSE, 0, "", <<>>, c) : c \in CategoryLists}
    \cup {Document(TRUE, 3, "", <<>>, c) : c \in CategoryLists}

Documents(url) ==
    CASE url.base = API_URL -> QuestionDocuments
      [] url.base = TOKEN_URL -> TokenDocuments
      [] url.base = ALL_CATEGORIES_URL -> CategoryDocuments

\* the bodies sent with a status other than 200: no JSON, a document that
\* refuses the token, or a document that would have been a success
ErrorBodies(url) ==
    {NotJson} \cup
    {d \in Documents(url) : d.response_code \in {0, 3, 4} /\ d.results = <<>>}

\* every response the service may give to requests.get(url)
Responses(url) ==
    {[status_code |-> s, reason |-> Reason(s), body |-> b] :
        s \in {200}, b \in Documents(url) \cup {NotJson}}
    \cup {[status_code |-> s, reason |-> Reason(s), body |-> b] :
        s \in StatusCodes \ {200}, b \in ErrorBodies(url)}

-----------------------------------------------------------------------------
(* Client._request_resource *)

\* what a function call ends with: a returned value or a raised exception
Returned(value) == [raised |-> FALSE, value |-> value, exc |-> NoException]
Raised(exc) == [raised |-> TRUE, value |-> NotJson, exc |-> exc]

KeyError(key) == Exception("KeyError", NoAttr, NoAttr, key)

\* HttpFailure as raise_for_status would decide it: client and server errors only
HttpFailureFrom400(response) == response.status_code >= 400

\* HttpFailure with every 2xx status taken as success
HttpFailureOutside2xx(response) == response.status_code \notin 200..299

\* response.status_code != 200
HttpFailure(response) == response.status_code # 200

\* ResponseCodeFailure with the exceptions of codes 3 and 4 exchanged
ResponseCodeFailureSwapped(response_code) ==
    IF response_code = 1 THEN NoResults
    ELSE IF response_code = 2 THEN InvalidParameter
    ELSE IF response_code = 3 THEN TokenEmpty
    ELSE IF response_code = 4 THEN TokenNotFound
    ELSE IF response_code # 0 THEN UnexpectedResponseCode(PyStr(Str(response_code)))
    ELSE NoException

\* ResponseCodeFailure reporting str(response.status_code), 200 at this point,
\* instead of str(response_code)
ResponseCodeFailureStatus(response_code) ==
    IF response_code = 1 THEN NoResults
    ELSE IF response_code = 2 THEN InvalidParameter
    ELSE IF response_code = 3 THEN TokenNotFound
    ELSE IF response_code = 4 THEN TokenEmpty
    ELSE IF response_code # 0 THEN UnexpectedResponseCode(PyStr(Str(200)))
    ELSE NoException

\* the if/elif chain over json['response_code']
ResponseCodeFailure(response_code) ==
    IF response_code = 1 THEN NoResults
    ELSE IF response_code = 2 THEN InvalidParameter
    ELSE IF response_code = 3 THEN TokenNotFound
    ELSE IF response_code = 4 THEN TokenEmpty
    ELSE IF response_code # 0 THEN UnexpectedResponseCode(PyStr(Str(response_code)))
    ELSE NoException

\* RequestResource decoding the body and reading response_code before it
\* looks at the status
RequestResourceBodyFirst(response, response_code) ==
    IF ~response.body.valid THEN Raised(ValueError)
    ELSE IF response_code /\ ~response.body.has_rc THEN Raised(KeyError("response_code"))
    ELSE IF response_code /\ ResponseCodeFailure(response.body.response_code) # NoException
    THEN Raised(ResponseCodeFailure(response.body.response_code))
    ELSE IF HttpFailure(response)
    THEN Raised(HttpError(response.status_code, response.reason))
    ELSE Returned(response.body)

\* _request_resource(url, response_code), response being what requests.get(url) got
RequestResource(response, response_code) ==
    IF HttpFailure(response)
    THEN Raised(HttpError(response.status_code, response.reason))
    ELSE IF ~response.body.valid THEN Raised(ValueError)
    ELSE IF response_code
    THEN IF ~response.body.has_rc THEN Raised(KeyError("response_code"))
         ELSE LET failure == ResponseCodeFailure(response.body.response_code)
              IN  IF failure # NoException THEN Raised(failure)
                  ELSE Returned(response.body)
    ELSE Returned(response.body)

\* one Transport call as the frames record it
LogEntry(url, response_code, response) ==
    [url |-> url, response_code |-> response_code, response |-> response,
     json |-> RequestResource(response, response_code).value,
     exc |-> RequestResource(response, response_code).exc]

-----------------------------------------------------------------------------
(* Client._get_token, Client._get_categories *)

\* the url _get_token builds
TokenUrl(reset, self_token) ==
    IF reset
    THEN Url(TOKEN_URL, <<<<"command", "reset">>, <<"token", self_token>>>>)
    ELSE Url(TOKEN_URL, <<<<"command", "request">>>>)

\* GetToken with response-code checking switched off: the token field of a
\* document that refuses the request is returned as the token
GetTokenUnchecked(response) ==
    LET json == RequestResource(response, FALSE)
    IN  IF json.raised THEN json ELSE Returned(json.value.token)

\* _get_token(reset): json['token'] of the response, or the failure
GetToken(response) ==
    LET json == RequestResource(response, TRUE)
    IN  IF json.raised THEN json ELSE Returned(json.value.token)

\* a dict as its items in insertion order
DictHas(d, key) == \E i \in DOMAIN d : PyEq(PyStr(d[i][1]), key)
DictGet(d, key) == d[CHOOSE i \in DOMAIN d : PyEq(PyStr(d[i][1]), key)][2]
DictKeys(d) == [i \in DOMAIN d |-> d[i][1]]
DictSet(d, k, v) ==
    IF \E i \in DOMAIN d : d[i][1] = k
    THEN [i \in DOMAIN d |-> IF d[i][1] = k THEN <<k, v>> ELSE d[i]]
    ELSE Append(d, <<k, v>>)

\* {category['name']: category['id'] for category in json['trivia_categories']}
RECURSIVE CategoryDict(_)
CategoryDict(trivia_categories) ==
    IF trivia_categories = <<>> THEN <<>>
    ELSE LET n == Len(trivia_categories)
             last == trivia_categories[n]
         IN  DictSet(CategoryDict(SubSeq(trivia_categories, 1, n - 1)), last.name, last.id)

\* GetCategories with response-code checking left on
GetCategoriesChecked(response) ==
    LET json == RequestResource(response, TRUE)
    IN  IF json.raised THEN json
        ELSE Returned(CategoryDict(json.value.trivia_categories))

\* _get_categories()
GetCategories(response) ==
    LET json == RequestResource(response, FALSE)
    IN  IF json.raised THEN json
        ELSE Returned(CategoryDict(json.value.trivia_categories))

-----------------------------------------------------------------------------
(* Client.get_questions: the argument checks and api_url *)

difficulties == <<"easy", "medium", "hard">>
types == <<"multiple", "boolean">>

\* InTuple comparing without regard to case
InTupleIgnoringCase(x, tuple) ==
    \E i \in DOMAIN tuple : x.type = "str" /\ Lowered(x.val) = tuple[i]

\* x in a tuple of str
InTuple(x, tuple) == \E i \in DOMAIN tuple : PyEq(PyStr(tuple[i]), x)

\* ', '.join(tuple)
RECURSIVE Join(_)
Join(tuple) ==
    IF Len(tuple) = 0 THEN ""
    ELSE IF Len(tuple) = 1 THEN tuple[1]
    ELSE tuple[1] \o ", " \o Join(Tail(tuple))

\* NumberOk with the lower limit off by one: 0 <= number <= 50
NumberOkFromZero(number) == IsInstanceInt(number) /\ 0 <= number.val /\ number.val <= 50

\* isinstance(number, int) and (0 < number <= 50)
NumberOk(number) == IsInstanceInt(number) /\ 0 < number.val /\ number.val <= 50

\* the checks of get_questions in their order: the TypeError raised, or api_url
\* (whose "&token=" is completed by the token of each request)
ApiUrl(number, category, difficulty, _type, cats) ==
    IF ~NumberOk(number)
    THEN Raised(TypeError("Parameter 'number' must be an int between 1 and 50"))
    ELSE IF category # PyNone /\ ~DictHas(cats, category)
    THEN Raised(TypeError("Parameter 'category' must be an existing category. "
                          \o "Call Client.category to check available categories."))
    ELSE IF difficulty # PyNone /\ ~InTuple(difficulty, difficulties)
    THEN Raised(TypeError("Parameter 'difficulty' must be one of: " \o Join(difficulties)))
    ELSE IF _type # PyNone /\ ~InTuple(_type, types)
    THEN Raised(TypeError("Parameter '_type' must be one of: " \o Join(types)))
    ELSE Returned(Url(API_URL,
            <<<<"amount", FormatI(number)>>>>
            \o (IF category = PyNone THEN <<>>
                ELSE <<<<"category", FormatI(PyInt(DictGet(cats, category)))>>>>)
            \o (IF difficulty = PyNone THEN <<>> ELSE <<<<"difficulty", difficulty.val>>>>)
            \o (IF _type = PyNone THEN <<>> ELSE <<<<"type", _type.val>>>>)))

\* api_url + self.token
WithToken(api_url, self_token) ==
    Url(api_url.base, api_url.query \o <<<<"token", self_token>>>>)

\* Questions built from the last record to the first
QuestionsReversed(json) ==
    [i \in DOMAIN json.results |-> Question(json.results[Len(json.results) + 1 - i])]

\* [Question(**question) for question in json['results']]
Questions(json) == [i \in DOMAIN json.results |-> Question(json.results[i])]

-----------------------------------------------------------------------------
(* The arguments callers pass to get_questions *)

Numbers ==
    {PyInt(-1), PyInt(0), PyInt(1), PyInt(50), PyInt(51),
     PyBool(TRUE), PyBool(FALSE), PyStr("5"), PyFloat("2.5"), PyNone}

Categories == {PyNone, PyStr("Sports"), PyStr("History"), PyStr("Nope"), PyInt(21)}

Difficulties ==
    {PyNone, PyStr("easy"), PyStr("hard"), PyStr("Easy"), PyInt(1)}

Types == {PyNone, PyStr("boolean"), PyStr("any")}

\* the callers of one Client; a single caller when the Client is used sequentially
AllCallers == {1, 2}
SeqCallers == {1}

-----------------------------------------------------------------------------
(* State *)

NoUrl == Url("", <<>>)

\* self.token before __init__ has assigned it
NoToken == "<no attribute>"

IdleFrame ==
    [pc |-> "idle", number |-> PyNone, category |-> PyNone, difficulty |-> PyNone,
     type |-> PyNone, api_url |-> NoUrl, log |-> <<>>, result |-> <<>>,
     exc |-> NoException]

NewCtor == [pc |-> "token", log |-> <<>>, exc |-> NoException]

Init ==
    /\ ctor = NewCtor
    /\ token = NoToken
    /\ categories_and_ids = <<>>
    /\ calls = [t \in AllCallers |-> IdleFrame]

-----------------------------------------------------------------------------
(* Client.__init__ *)

\* self.token = self._get_token()
InitToken ==
    /\ ctor.pc = "token"
    /\ LET url == TokenUrl(FALSE, token)
       IN  \E response \in Responses(url) :
             LET got == GetToken(response)
                 log == Append(ctor.log, LogEntry(url, TRUE, response))
             IN  IF got.raised
                 THEN /\ ctor' = [pc |-> "failed", log |-> log, exc |-> got.exc]
                      /\ UNCHANGED token
                 ELSE /\ ctor' = [ctor EXCEPT !.pc = "categories", !.log = log]
                      /\ token' = got.value
    /\ UNCHANGED <<categories_and_ids, calls>>

\* self._categories_and_ids = self._get_categories(), then the two tuples
InitCategories ==
    /\ ctor.pc = "categories"
    /\ LET url == Url(ALL_CATEGORIES_URL, <<>>)
       IN  \E response \in Responses(url) :
             LET got == GetCategories(response)
                 log == Append(ctor.log, LogEntry(url, FALSE, response))
             IN  IF got.raised
                 THEN /\ ctor' = [pc |-> "failed", log |-> log, exc |-> got.exc]
                      /\ UNCHANGED categories_and_ids
                 ELSE /\ ctor' = [ctor EXCEPT !.pc = "ready", !.log = log]
                      /\ categories_and_ids' = got.value
    /\ UNCHANGED <<token, calls>>

\* the constructor raised: the caller has no Client and constructs another
NewClient ==
    /\ ctor.pc = "failed"
    /\ ctor' = NewCtor
    /\ token' = NoToken
    /\ categories_and_ids' = <<>>
    /\ UNCHANGED calls

-----------------------------------------------------------------------------
(* Client.get_questions *)

\* the call, up to the first Transport call: arguments checked, api_url built
GetQuestions(t, number, category, difficulty, _type) ==
    /\ ctor.pc = "ready"
    /\ calls[t].pc = "idle"
    /\ LET api_url == ApiUrl(number, category, difficulty, _type, categories_and_ids)
           frame == [IdleFrame EXCEPT !.number = number, !.category = category,
                                      !.difficulty = difficulty, !.type = _type]
       IN  calls' = [calls EXCEPT ![t] =
                IF api_url.raised
                THEN [frame EXCEPT !.pc = "raised", !.exc = api_url.exc]
                ELSE [frame EXCEPT !.pc = "try", !.api_url = api_url.value]]
    /\ UNCHANGED <<ctor, token, categories_and_ids>>

\* TryRequest with NoResults handled like TokenEmpty: the token is reset and
\* the request sent again
TryRequestRecoversNoResults(t) ==
    /\ calls[t].pc = "try"
    /\ LET url == WithToken(calls[t].api_url, token)
       IN  \E response \in Responses(url) :
             LET json == RequestResource(response, TRUE)
                 log == Append(calls[t].log, LogEntry(url, TRUE, response))
             IN  calls' = [calls EXCEPT ![t] =
                    IF ~json.raised
                    THEN [@ EXCEPT !.pc = "returned", !.log = log,
                                   !.result = Questions(json.value)]
                    ELSE IF json.exc.kind = "TokenNotFound"
                    THEN [@ EXCEPT !.pc = "except TokenNotFound", !.log = log]
                    ELSE IF json.exc.kind \in {"TokenEmpty", "NoResults"}
                    THEN [@ EXCEPT !.pc = "except TokenEmpty", !.log = log]
                    ELSE [@ EXCEPT !.pc = "raised", !.log = log, !.exc = json.exc]]
    /\ UNCHANGED <<ctor, token, categories_and_ids>>

\* try: json = self._request_resource(api_url + self.token)
TryRequest(t) ==
    /\ calls[t].pc = "try"
    /\ LET url == WithToken(calls[t].api_url, token)
       IN  \E response \in Responses(url) :
             LET json == RequestResource(response, TRUE)
                 log == Append(calls[t].log, LogEntry(url, TRUE, response))
             IN  calls' = [calls EXCEPT ![t] =
                    IF ~json.raised
                    THEN [@ EXCEPT !.pc = "returned", !.log = log,
                                   !.result = Questions(json.value)]
                    ELSE IF json.exc.kind = "TokenNotFound"
                    THEN [@ EXCEPT !.pc = "except TokenNotFound", !.log = log]
                    ELSE IF json.exc.kind = "TokenEmpty"
                    THEN [@ EXCEPT !.pc = "except TokenEmpty", !.log = log]
                    ELSE [@ EXCEPT !.pc = "raised", !.log = log, !.exc = json.exc]]
    /\ UNCHANGED <<ctor, token, categories_and_ids>>

\* HandleToken with the returned token dropped: self.token is not assigned
HandleTokenNotStored(t, reset) ==
    LET url == TokenUrl(reset, token)
    IN  \E response \in Responses(url) :
          LET got == GetToken(response)
              log == Append(calls[t].log, LogEntry(url, TRUE, response))
          IN  /\ calls' = [calls EXCEPT ![t] =
                    IF got.raised
                    THEN [@ EXCEPT !.pc = "raised", !.log = log, !.exc = got.exc]
                    ELSE [@ EXCEPT !.pc = "retry", !.log = log]]
              /\ UNCHANGED token

\* HandleToken swallowing a failed token request: the question request is
\* sent again with the token already stored
HandleTokenIgnoringFailure(t, reset) ==
    LET url == TokenUrl(reset, token)
    IN  \E response \in Responses(url) :
          LET got == GetToken(response)
              log == Append(calls[t].log, LogEntry(url, TRUE, response))
          IN  /\ calls' = [calls EXCEPT ![t] = [@ EXCEPT !.pc = "retry", !.log = log]]
              /\ token' = IF got.raised THEN token ELSE got.value

\* self.token = self._get_token(reset) in an except clause
HandleToken(t, reset) ==
    LET url == TokenUrl(reset, token)
    IN  \E response \in Responses(url) :
          LET got == GetToken(response)
              log == Append(calls[t].log, LogEntry(url, TRUE, response))
          IN  IF got.raised
              THEN /\ calls' = [calls EXCEPT ![t] =
                          [@ EXCEPT !.pc = "raised", !.log = log, !.exc = got.exc]]
                   /\ UNCHANGED token
              ELSE /\ calls' = [calls EXCEPT ![t] = [@ EXCEPT !.pc = "retry", !.log = log]]
                   /\ token' = got.value

\* ExceptTokenNotFound resetting the unknown token instead of requesting one
ExceptTokenNotFoundResets(t) ==
    /\ calls[t].pc = "except TokenNotFound"
    /\ HandleToken(t, TRUE)
    /\ UNCHANGED <<ctor, categories_and_ids>>

\* ExceptTokenNotFound running the constructor again, self.__init__(), to get
\* the new token: the categories are fetched and stored a second time
ExceptTokenNotFoundReinit(t) ==
    /\ calls[t].pc = "except TokenNotFound"
    /\ LET token_url == TokenUrl(FALSE, token)
           categories_url == Url(ALL_CATEGORIES_URL, <<>>)
       IN  \E r1 \in Responses(token_url), r2 \in Responses(categories_url) :
             LET got == GetToken(r1)
                 cats == GetCategories(r2)
                 log1 == Append(calls[t].log, LogEntry(token_url, TRUE, r1))
                 log2 == Append(log1, LogEntry(categories_url, FALSE, r2))
             IN  IF got.raised
                 THEN /\ calls' = [calls EXCEPT ![t] =
                            [@ EXCEPT !.pc = "raised", !.log = log1, !.exc = got.exc]]
                      /\ UNCHANGED <<token, categories_and_ids>>
                 ELSE IF cats.raised
                 THEN /\ calls' = [calls EXCEPT ![t] =
                            [@ EXCEPT !.pc = "raised", !.log = log2, !.exc = cats.exc]]
                      /\ token' = got.value
                      /\ UNCHANGED categories_and_ids
                 ELSE /\ calls' = [calls EXCEPT ![t] =
                            [@ EXCEPT !.pc = "retry", !.log = log2]]
                      /\ token' = got.value
                      /\ categories_and_ids' = cats.value
    /\ UNCHANGED ctor

\* except TokenNotFound: self.token = self._get_token()
ExceptTokenNotFound(t) ==
    /\ calls[t].pc = "except TokenNotFound"
    /\ HandleToken(t, FALSE)
    /\ UNCHANGED <<ctor, categories_and_ids>>

\* ExceptTokenEmpty requesting a new token instead of resetting the old one
ExceptTokenEmptyRequests(t) ==
    /\ calls[t].pc = "except TokenEmpty"
    /\ HandleToken(t, FALSE)
    /\ UNCHANGED <<ctor, categories_and_ids>>

\* except TokenEmpty: self.token = self._get_token(reset=True)
ExceptTokenEmpty(t) ==
    /\ calls[t].pc = "except TokenEmpty"
    /\ HandleToken(t, TRUE)
    /\ UNCHANGED <<ctor, categories_and_ids>>

\* RetryRequest inside a loop: a token failure of the retry is handled again
RetryRequestAgain(t) ==
    /\ calls[t].pc = "retry"
    /\ LET url == WithToken(calls[t].api_url, token)
       IN  \E response \in Responses(url) :
             LET json == RequestResource(response, TRUE)
                 log == Append(calls[t].log, LogEntry(url, TRUE, response))
             IN  calls' = [calls EXCEPT ![t] =
                    IF ~json.raised
                    THEN [@ EXCEPT !.pc = "returned", !.log = log,
                                   !.result = Questions(json.value)]
                    ELSE IF json.exc.kind \in {"TokenNotFound", "TokenEmpty"}
                    THEN [@ EXCEPT !.pc = "except " \o json.exc.kind, !.log = log]
                    ELSE [@ EXCEPT !.pc = "raised", !.log = log, !.exc = json.exc]]
    /\ UNCHANGED <<ctor, token, categories_and_ids>>

\* RetryRequest putting back the token the call started with when the
\* retry fails
RetryRequestRestoring(t) ==
    /\ calls[t].pc = "retry"
    /\ LET url == WithToken(calls[t].api_url, token)
       IN  \E response \in Responses(url) :
             LET json == RequestResource(response, TRUE)
                 log == Append(calls[t].log, LogEntry(url, TRUE, response))
             IN  IF json.raised
                 THEN /\ calls' = [calls EXCEPT ![t] =
                            [@ EXCEPT !.pc = "raised", !.log = log, !.exc = json.exc]]
                      /\ token' = Param(calls[t].log[1].url, "token")
                 ELSE /\ calls' = [calls EXCEPT ![t] =
                            [@ EXCEPT !.pc = "returned", !.log = log,
                                      !.result = Questions(json.value)]]
                      /\ token' = token
    /\ UNCHANGED <<ctor, categories_and_ids>>

\* RetryRequest sending the token this call itself acquired, kept in a local
\* variable, instead of reading self.token again
RetryRequestOwnToken(t) ==
    /\ calls[t].pc = "retry"
    /\ LET url == WithToken(calls[t].api_url, calls[t].log[2].json.token)
       IN  \E response \in Responses(url) :
             LET json == RequestResource(response, TRUE)
                 log == Append(calls[t].log, LogEntry(url, TRUE, response))
             IN  calls' = [calls EXCEPT ![t] =
                    IF json.raised
                    THEN [@ EXCEPT !.pc = "raised", !.log = log, !.exc = json.exc]
                    ELSE [@ EXCEPT !.pc = "returned", !.log = log,
                                   !.result = Questions(json.value)]]
    /\ UNCHANGED <<ctor, token, categories_and_ids>>

\* json = self._request_resource(api_url + self.token) inside the except clause
RetryRequest(t) ==
    /\ calls[t].pc = "retry"
    /\ LET url == WithToken(calls[t].api_url, token)
       IN  \E response \in Responses(url) :
             LET json == RequestResource(response, TRUE)
                 log == Append(calls[t].log, LogEntry(url, TRUE, response))
             IN  calls' = [calls EXCEPT ![t] =
                    IF json.raised
                    THEN [@ EXCEPT !.pc = "raised", !.log = log, !.exc = json.exc]
                    ELSE [@ EXCEPT !.pc = "returned", !.log = log,
                                   !.result = Questions(json.value)]]
    /\ UNCHANGED <<ctor, token, categories_and_ids>>

-----------------------------------------------------------------------------
(* Client.categories, Client.difficulties, Client.types *)

\* what a property returned to caller t
PropertyFrame(value) == [IdleFrame EXCEPT !.pc = "property", !.result = value]

\* tuple(self._categories_and_ids)
CategoriesProperty(t) ==
    /\ ctor.pc = "ready"
    /\ calls[t].pc = "idle"
    /\ calls' = [calls EXCEPT ![t] = PropertyFrame(DictKeys(categories_and_ids))]
    /\ UNCHANGED <<ctor, token, categories_and_ids>>

\* self._difficulties
DifficultiesProperty(t) ==
    /\ ctor.pc = "ready"
    /\ calls[t].pc = "idle"
    /\ calls' = [calls EXCEPT ![t] = PropertyFrame(difficulties)]
    /\ UNCHANGED <<ctor, token, categories_and_ids>>

\* self._types
TypesProperty(t) ==
    /\ ctor.pc = "ready"
    /\ calls[t].pc = "idle"
    /\ calls' = [calls EXCEPT ![t] = PropertyFrame(types)]
    /\ UNCHANGED <<ctor, token, categories_and_ids>>

\* the caller has the list or the exception; its next call starts afresh
Finish(t) ==
    /\ calls[t].pc \in {"returned", "raised", "property"}
    /\ calls' = [calls EXCEPT ![t] = IdleFrame]
    /\ UNCHANGED <<ctor, token, categories_and_ids>>

CallNext(t) ==
    \/ \E number \in Numbers, category \in Categories,
          difficulty \in Difficulties, _type \in Types :
            GetQuestions(t, number, category, difficulty, _type)
    \/ TryRequest(t)
    \/ ExceptTokenNotFound(t)
    \/ ExceptTokenEmpty(t)
    \/ RetryRequest(t)
    \/ CategoriesProperty(t)
    \/ DifficultiesProperty(t)
    \/ TypesProperty(t)
    \/ Finish(t)

Next ==
    \/ InitToken
    \/ InitCategories
    \/ NewClient
    \/ \E t \in SeqCallers : CallNext(t)

Spec == Init /\ [][Next]_vars

-----------------------------------------------------------------------------
(* Two threads calling get_questions on one Client *)

\* the service as the two-thread specification lets it answer: always with
\* status 200 and a JSON document, which accepts the request or refuses the
\* token, and never with questions
ConcService ==
    \A e \in {ctor.log[i] : i \in DOMAIN ctor.log}
             \cup UNION {{calls[t].log[i] : i \in DOMAIN calls[t].log} : t \in AllCallers} :
        /\ e.response.status_code = 200
        /\ e.response.body.valid
        /\ e.response.body.response_code \in {0, 3, 4}
        /\ e.response.body.results = <<>>
        /\ e.url.base = ALL_CATEGORIES_URL =>
                /\ ~e.response.body.has_rc
                /\ Len(e.response.body.trivia_categories) = 1

\* a thread's steps: get_questions(1), one statement of it at a time; the
\* interpreter may switch threads between any two of them
ConcCall(t) ==
    \/ GetQuestions(t, PyInt(1), PyNone, PyNone, PyNone)
    \/ TryRequest(t) /\ ConcService'
    \/ ExceptTokenNotFound(t) /\ ConcService'
    \/ ExceptTokenEmpty(t) /\ ConcService'
    \/ RetryRequest(t) /\ ConcService'
    \/ Finish(t)

ConcNext ==
    \/ InitToken /\ ConcService'
    \/ InitCategories /\ ConcService'
    \/ NewClient
    \/ \E t \in AllCallers : ConcCall(t)

ConcSpec == Init /\ [][ConcNext]_vars

-----------------------------------------------------------------------------
(* Reading the frames *)

Done(t) == calls[t].pc \in {"returned", "raised"}

\* the Transport calls of caller t's current get_questions, in order
LogOf(t) == calls[t].log

\* the first question request of the call failed with this exception
FirstFailedWith(t, kind) == Len(LogOf(t)) >= 1 /\ LogOf(t)[1].exc.kind = kind

IsQuestionRequest(e) == e.url.base = API_URL
IsTokenRequest(e) == e.url.base = TOKEN_URL

\* every Transport call recorded in a frame
AllEntries ==
    {ctor.log[i] : i \in DOMAIN ctor.log}
    \cup UNION {{LogOf(t)[i] : i \in DOMAIN LogOf(t)} : t \in AllCallers}

\* the outcome of the call is the outcome of its i-th Transport call
OutcomeIsOf(t, i) ==
    LET e == LogOf(t)[i]
    IN  IF e.exc = NoException
        THEN calls[t].pc = "returned" /\ calls[t].result = Questions(e.response.body)
        ELSE calls[t].pc = "raised" /\ calls[t].exc = e.exc

\* the shape of a recovery whose token request is token_url: one token
\* request, the returned token stored, one retry carrying it, its outcome
\* the outcome of the call
RecoveryShape(t, token_url) ==
    LET log == LogOf(t)
    IN  /\ Len(log) <= 3
        /\ Len(log) = 1 <=> calls[t].pc \in {"except TokenNotFound", "except TokenEmpty"}
        /\ Len(log) >= 2 =>
             /\ log[2].url = token_url
             /\ log[2].response_code
             /\ IF log[2].exc = NoException
                THEN /\ token = log[2].response.body.token
                     /\ Len(log) = 2 <=> calls[t].pc = "retry"
                ELSE Len(log) = 2 /\ OutcomeIsOf(t, 2)
        /\ Len(log) = 3 =>
             /\ log[3].url = WithToken(calls[t].api_url, log[2].response.body.token)
             /\ log[3].response_code
             /\ OutcomeIsOf(t, 3)

-----------------------------------------------------------------------------
(* Token recovery *)

\* C1: when the first question request of a get_questions call fails with
\* TokenNotFound, the call issues exactly one token request, in request mode
\* (command=request and no token parameter); when that request returns a
\* token the Client stores it and issues exactly one more question request,
\* carrying the stored token, and the call returns that request's result or
\* raises its failure.
C1_TokenNotFoundRecovery ==
    \A t \in AllCallers :
        FirstFailedWith(t, "TokenNotFound") =>
            /\ RecoveryShape(t, Url(TOKEN_URL, <<<<"command", "request">>>>))
            /\ calls[t].pc # "except TokenEmpty"
            /\ Len(LogOf(t)) >= 2 => ~HasParam(LogOf(t)[2].url, "token")

C1_Witness ==
    /\ FirstFailedWith(1, "TokenNotFound")
    /\ Len(LogOf(1)) = 3
    /\ calls[1].pc = "returned"
    /\ Len(calls[1].result) = 2
    /\ Param(LogOf(1)[3].url, "token") # Param(LogOf(1)[1].url, "token")

\* C2: when the first question request fails with TokenEmpty, the call
\* issues exactly one token request, in reset mode, carrying the token the
\* first request was sent with; when it returns a token (the old one or
\* another) the Client stores it and issues exactly one more question
\* request with the stored token, whose outcome is the outcome of the call.
C2_TokenEmptyRecovery ==
    \A t \in AllCallers :
        FirstFailedWith(t, "TokenEmpty") =>
            /\ RecoveryShape(t, Url(TOKEN_URL,
                   <<<<"command", "reset">>,
                     <<"token", Param(LogOf(t)[1].url, "token")>>>>))
            /\ calls[t].pc # "except TokenNotFound"

C2_Witness ==
    /\ FirstFailedWith(1, "TokenEmpty")
    /\ Len(LogOf(1)) = 3
    /\ calls[1].pc = "returned"
    /\ Len(calls[1].result) = 1
    /\ Param(LogOf(1)[2].url, "command") = "reset"
    /\ LogOf(1)[2].response.body.token # Param(LogOf(1)[1].url, "token")

\* C3: whatever failure the retry produces (TokenNotFound or TokenEmpty
\* again, or the other of the two) is the exception the call raises, and
\* the call issues no Transport call after the retry.
C3_RetryFailurePropagates ==
    \A t \in AllCallers :
        /\ Len(LogOf(t)) <= 3
        /\ Len(LogOf(t)) = 3 =>
             /\ Done(t)
             /\ LogOf(t)[3].exc # NoException =>
                    calls[t].pc = "raised" /\ calls[t].exc = LogOf(t)[3].exc

C3_Witness ==
    /\ FirstFailedWith(1, "TokenNotFound")
    /\ Len(LogOf(1)) = 3
    /\ LogOf(1)[3].exc = TokenEmpty
    /\ calls[1].pc = "raised"
    /\ calls[1].exc = TokenEmpty

\* C4 as stated: after a TokenNotFound the retry never carries the token the
\* first request carried, whatever the token endpoint returned.
C4_RetryNeverOriginalToken ==
    \A t \in AllCallers :
        FirstFailedWith(t, "TokenNotFound") /\ Len(LogOf(t)) = 3 =>
            Param(LogOf(t)[3].url, "token") # Param(LogOf(t)[1].url, "token")

\* C4 amended: after a TokenNotFound the retry carries the token the
\* request-mode token request returned, so it differs from the token of the
\* first request whenever the token endpoint returned a different one.
C4_RetryCarriesReturnedToken ==
    \A t \in AllCallers :
        FirstFailedWith(t, "TokenNotFound") /\ Len(LogOf(t)) = 3 =>
            LET first == Param(LogOf(t)[1].url, "token")
                returned == LogOf(t)[2].response.body.token
                retried == Param(LogOf(t)[3].url, "token")
            IN  /\ retried = returned
                /\ returned # first => retried # first

C4_Witness ==
    /\ FirstFailedWith(1, "TokenNotFound")
    /\ Len(LogOf(1)) = 3
    /\ LogOf(1)[2].response.body.token = "tokenB"
    /\ Param(LogOf(1)[1].url, "token") = "tokenA"
    /\ Param(LogOf(1)[3].url, "token") = "tokenB"

-----------------------------------------------------------------------------
(* Argument validation *)

\* the counts get_questions accepts: the integers 1..50 (a Python bool is an
\* int, and True is the integer 1)
ValidCounts == {PyInt(n) : n \in 1..50} \cup {PyBool(TRUE)}

CategoryKnown(c) ==
    c.type = "str" /\ \E i \in DOMAIN categories_and_ids : categories_and_ids[i][1] = c.val
BadCategory(c) == c # PyNone /\ ~CategoryKnown(c)
BadDifficulty(d) == d # PyNone /\ d \notin {PyStr("easy"), PyStr("medium"), PyStr("hard")}
BadType(ty) == ty # PyNone /\ ty \notin {PyStr("multiple"), PyStr("boolean")}

\* the call was refused by an argument check, before any Transport call
Refused(t) ==
    /\ calls[t].pc = "raised"
    /\ calls[t].exc.kind = "TypeError"
    /\ LogOf(t) = <<>>

DigitValue(c) == CHOOSE d \in 0..9 : Digit(d) = c

RECURSIVE ParseNat(_)
ParseNat(s) ==
    IF Len(s) = 1 THEN DigitValue(s)
    ELSE 10 * ParseNat(SubSeq(s, 1, Len(s) - 1)) + DigitValue(SubSeq(s, Len(s), Len(s)))

\* the integer a decimal string denotes
ParseInt(s) == IF Head(s) = "-" THEN 0 - ParseNat(Tail(s)) ELSE ParseNat(s)

\* C5: a get_questions call whose count is not an integer or is outside
\* [1,50] raises TypeError without any Transport call; a call whose count is
\* an integer in [1,50] is never refused for its count, and goes on to the
\* first request when its other arguments are valid.
C5_CountValidation ==
    \A t \in AllCallers :
        calls[t].pc \notin {"idle", "property"} =>
            /\ calls[t].number \notin ValidCounts => Refused(t)
            /\ calls[t].number \in ValidCounts =>
                 /\ calls[t].exc # TypeError("Parameter 'number' must be an int between 1 and 50")
                 /\ ( /\ ~BadCategory(calls[t].category)
                      /\ ~BadDifficulty(calls[t].difficulty)
                      /\ ~BadType(calls[t].type) ) => ~Refused(t)

C5_Witness ==
    /\ calls[1].number = PyInt(51)
    /\ calls[1].category = PyStr("Sports")
    /\ calls[1].difficulty = PyStr("easy")
    /\ Refused(1)

\* C6: a get_questions call given a category that is no key of the category
\* table, a difficulty other than easy/medium/hard or a type other than
\* multiple/boolean raises TypeError before any Transport call, and the step
\* that refuses it leaves self.token (and the table) as they were; a valid
\* category appears in the request as the id the table maps it to.
C6_ArgumentValidation ==
    /\ [](\A t \in AllCallers :
            calls[t].pc \notin {"idle", "property"} =>
                /\ ( \/ BadCategory(calls[t].category)
                     \/ BadDifficulty(calls[t].difficulty)
                     \/ BadType(calls[t].type) ) => Refused(t)
                /\ (calls[t].category # PyNone /\ calls[t].api_url # NoUrl) =>
                     \E i \in DOMAIN categories_and_ids :
                        categories_and_ids[i] =
                            <<calls[t].category.val,
                              ParseInt(Param(calls[t].api_url, "category"))>>)
    /\ [][\A t \in AllCallers :
            (calls[t].pc = "idle" /\ calls'[t].pc = "raised") =>
                token' = token /\ categories_and_ids' = categories_and_ids]_vars

C6_Witness ==
    /\ calls[1].number = PyInt(1)
    /\ calls[1].category = PyStr("Nope")
    /\ calls[1].difficulty = PyNone
    /\ calls[1].type = PyNone
    /\ Refused(1)
    /\ token = "tokenA"

-----------------------------------------------------------------------------
(* Transport *)

\* the exception class the service's response_code stands for ("" for none)
KindOfCode(rc) ==
    CASE rc = 0 -> ""
      [] rc = 1 -> "NoResults"
      [] rc = 2 -> "InvalidParameter"
      [] rc = 3 -> "TokenNotFound"
      [] rc = 4 -> "TokenEmpty"
      [] OTHER -> "UnexpectedResponseCode"

\* a Transport call that got status 200 and a JSON document, with
\* response-code checking enabled
Inspected(e) ==
    e.response_code /\ e.response.status_code = 200 /\ e.response.body.valid

\* C7: with response-code checking enabled and status 200, a document whose
\* response_code is 0 is returned, 1 raises NoResults, 2 InvalidParameter,
\* 3 TokenNotFound, 4 TokenEmpty and any other integer
\* UnexpectedResponseCode; nothing else happens.
C7_ResponseCodeMapping ==
    \A e \in AllEntries :
        Inspected(e) =>
            /\ e.exc.kind = KindOfCode(e.response.body.response_code)
            /\ e.response.body.response_code = 0 =>
                 e.exc = NoException /\ e.json = e.response.body

C7_Witness ==
    \E e \in AllEntries :
        /\ Inspected(e)
        /\ IsQuestionRequest(e)
        /\ e.response.body.response_code = 5
        /\ e.exc.kind = "UnexpectedResponseCode"

\* C8: every Transport call (to the token, category or question endpoint,
\* response-code checking enabled or not) that gets a status other than 200
\* raises HttpError whose status_code is the status received, whatever the
\* body.
C8_Non200IsHttpError ==
    \A e \in AllEntries :
        e.response.status_code # 200 =>
            /\ e.exc.kind = "HttpError"
            /\ e.exc.status_code = PyInt(e.response.status_code)

C8_Witness ==
    \E e \in AllEntries :
        /\ IsTokenRequest(e)
        /\ Param(e.url, "command") = "reset"
        /\ e.response.status_code = 201
        /\ e.response.body.valid
        /\ e.response.body.response_code = 0
        /\ e.exc = HttpError(201, "Created")

\* C9 as stated: HttpError is raised exactly for the statuses outside
\* 200..299.
C9_HttpErrorOutside2xx ==
    \A e \in AllEntries :
        e.exc.kind = "HttpError" <=> e.response.status_code \notin 200..299

\* C9 amended: HttpError is raised exactly for the statuses other than 200
\* (201..299 included); only status 200 proceeds to JSON decoding and, when
\* enabled, to the inspection of response_code.
C9_HttpErrorUnless200 ==
    \A e \in AllEntries :
        /\ e.exc.kind = "HttpError" <=> e.response.status_code # 200
        /\ e.response.status_code = 200 =>
             /\ ~e.response.body.valid => e.exc = ValueError
             /\ Inspected(e) => e.exc.kind = KindOfCode(e.response.body.response_code)
        /\ e.exc.kind \in {"ValueError", "NoResults", "InvalidParameter", "TokenNotFound",
                           "TokenEmpty", "UnexpectedResponseCode"} =>
             e.response.status_code = 200

C9_Witness ==
    \E e \in AllEntries :
        /\ IsQuestionRequest(e)
        /\ e.response.status_code = 299
        /\ e.response.body.valid
        /\ e.response.body.response_code = 0
        /\ e.exc.kind = "HttpError"

\* C10 as stated: the code attribute of UnexpectedResponseCode equals the
\* integer response_code the service returned.
C10_CodeIsTheInteger ==
    \A e \in AllEntries :
        e.exc.kind = "UnexpectedResponseCode" =>
            PyEq(e.exc.code, PyInt(e.response.body.response_code))

\* C10 amended: for every response_code outside 0..4 the code attribute of
\* the UnexpectedResponseCode raised is a str, the decimal text of the
\* integer the service returned ("99" for 99).
C10_CodeIsTheDecimalText ==
    \A e \in AllEntries :
        /\ (Inspected(e) /\ e.response.body.response_code \notin 0..4) =>
              e.exc.kind = "UnexpectedResponseCode"
        /\ e.exc.kind = "UnexpectedResponseCode" =>
              /\ e.exc.code.type = "str"
              /\ ParseInt(e.exc.code.val) = e.response.body.response_code

C10_Witness ==
    \E e \in AllEntries :
        /\ Inspected(e)
        /\ e.response.body.response_code = 99
        /\ e.exc.kind = "UnexpectedResponseCode"
        /\ e.exc.code = PyStr("99")

-----------------------------------------------------------------------------
(* The session token and the category table over the life of the Client *)

ReportedNames ==
    LET listed == ctor.log[2].json.trivia_categories
    IN  {listed[i].name : i \in DOMAIN listed}

\* C12: after construction no get_questions, categories, difficulties or
\* types call (succeeding, failing or recovering a token) sends a request
\* to the category endpoint or changes self._categories_and_ids: its keys
\* are the names of the one category document the constructor loaded, and
\* categories returns them.
C12_CategoryTableFrozen ==
    /\ [](ctor.pc = "ready" =>
            /\ {categories_and_ids[i][1] : i \in DOMAIN categories_and_ids} = ReportedNames
            /\ \A t \in AllCallers :
                 /\ \A i \in DOMAIN LogOf(t) : LogOf(t)[i].url.base # ALL_CATEGORIES_URL
                 /\ calls[t].pc = "property" =>
                      \/ /\ Len(calls[t].result) = Cardinality(ReportedNames)
                         /\ {calls[t].result[i] : i \in DOMAIN calls[t].result} = ReportedNames
                      \/ calls[t].result = <<"easy", "medium", "hard">>
                      \/ calls[t].result = <<"multiple", "boolean">>)
    /\ [][ctor.pc = "ready" =>
            categories_and_ids' = categories_and_ids /\ ctor' = ctor]_vars

C12_Witness ==
    /\ ctor.pc = "ready"
    /\ ctor.log[1].json.token = "tokenA"
    /\ token = "tokenB"
    /\ calls[1].pc = "property"
    /\ calls[1].result = <<"History", "Sports">>
    /\ categories_and_ids = << <<"History", 23>>, <<"Sports", 21>> >>

-----------------------------------------------------------------------------
(* Construction *)

-----------------------------------------------------------------------------
(* The question request and the returned list *)

\* the integer a valid count stands for
CountOf(number) == IF number.type = "bool" THEN 1 ELSE number.val

\* C14: every question request of a get_questions call with a valid count,
\* the first and the retry, has exactly one amount parameter, the first of
\* the query, whose decimal value is the count; a call that returns gives
\* one Question per record of the results of its last response, in the
\* order of the records, so as many as the service sent.
C14_AmountAndOrder ==
    \A t \in AllCallers :
        LET log == LogOf(t)
        IN  /\ \A i \in DOMAIN log :
                 IsQuestionRequest(log[i]) =>
                    /\ calls[t].number \in ValidCounts
                    /\ log[i].url.query[1][1] = "amount"
                    /\ Cardinality({k \in DOMAIN log[i].url.query :
                                        log[i].url.query[k][1] = "amount"}) = 1
                    /\ ParseInt(log[i].url.query[1][2]) = CountOf(calls[t].number)
            /\ calls[t].pc = "returned" =>
                 LET results == log[Len(log)].response.body.results
                     result == calls[t].result
                 IN  /\ IsQuestionRequest(log[Len(log)])
                     /\ Len(result) = Len(results)
                     /\ Len(results) = CountOf(calls[t].number) =>
                            Len(result) = CountOf(calls[t].number)
                     /\ \A i \in DOMAIN results :
                          /\ result[i] = Question(results[i])
                          /\ result[i].category = results[i].category

C14_Witness ==
    /\ calls[1].pc = "returned"
    /\ calls[1].number = PyInt(1)
    /\ Len(LogOf(1)) = 3
    /\ Param(LogOf(1)[1].url, "amount") = "1"
    /\ Param(LogOf(1)[3].url, "amount") = "1"
    /\ Len(calls[1].result) = 2
    /\ calls[1].result[1].category = "History"
    /\ calls[1].result[2].category = "Sports"

\* a returned list as long as the count asked for
C14_LengthWitness ==
    /\ calls[1].pc = "returned"
    /\ calls[1].number = PyBool(TRUE)
    /\ Param(LogOf(1)[1].url, "amount") = "1"
    /\ Len(calls[1].result) = 1

-----------------------------------------------------------------------------
(* Which failures are recovered from, and how many requests a call makes *)

TokenFailures == {"TokenNotFound", "TokenEmpty"}

\* C15: a get_questions call requests the token endpoint only after its
\* first question request failed with TokenNotFound or TokenEmpty, and a
\* finished call whose first request failed so did request it. A first
\* request that succeeds or fails with anything else is the only Transport
\* call: the call is over with that outcome and self.token is still the
\* token that request carried.
C15_RecoveryOnlyForTokenFailures ==
    \A t \in AllCallers :
        LET log == LogOf(t)
        IN  /\ (\E i \in DOMAIN log : IsTokenRequest(log[i])) =>
                    /\ log[1].exc.kind \in TokenFailures
                    /\ IsQuestionRequest(log[1])
            /\ (Done(t) /\ Len(log) >= 1 /\ log[1].exc.kind \in TokenFailures) =>
                    /\ Len(log) >= 2
                    /\ IsTokenRequest(log[2])
            /\ (Len(log) >= 1 /\ log[1].exc.kind \notin TokenFailures) =>
                    /\ Len(log) = 1
                    /\ IsQuestionRequest(log[1])
                    /\ IF log[1].exc = NoException
                       THEN calls[t].pc = "returned"
                       ELSE calls[t].pc = "raised" /\ calls[t].exc = log[1].exc
                    /\ token = Param(log[1].url, "token")

C15_Witness ==
    /\ calls[1].pc = "raised"
    /\ Len(LogOf(1)) = 1
    /\ LogOf(1)[1].exc = NoResults
    /\ calls[1].exc = NoResults
    /\ token = "tokenA"

\* the Transport calls a get_questions frame at this point may still make,
\* plus one for handing the outcome to the caller
Rank(frame) ==
    CASE frame.pc = "try" -> 4
      [] frame.pc \in {"except TokenNotFound", "except TokenEmpty"} -> 3
      [] frame.pc = "retry" -> 2
      [] frame.pc \in {"returned", "raised"} -> 1
      [] OTHER -> 0

InCall(t) == calls[t].pc \notin {"idle", "property"}

\* C16: a get_questions call makes at most three Transport calls, at most
\* two of them question requests and at most one a token request; and it
\* terminates: while it runs it can always take a step whatever the service
\* answers, and each of its steps brings it nearer to its end.
C16_CallTerminates ==
    /\ [](\A t \in AllCallers :
            LET log == LogOf(t)
            IN  /\ Len(log) <= 3
                /\ Cardinality({i \in DOMAIN log : IsQuestionRequest(log[i])}) <= 2
                /\ Cardinality({i \in DOMAIN log : IsTokenRequest(log[i])}) <= 1
                /\ \A i \in DOMAIN log : IsQuestionRequest(log[i]) \/ IsTokenRequest(log[i])
                /\ Len(log) + Rank(calls[t]) <= 4
                /\ (InCall(t) /\ t \in SeqCallers) => ENABLED CallNext(t))
    /\ [][\A t \in AllCallers :
            (InCall(t) /\ calls'[t] # calls[t]) => Rank(calls'[t]) < Rank(calls[t])]_vars

C16_Witness ==
    /\ calls[1].pc = "raised"
    /\ Len(LogOf(1)) = 3
    /\ LogOf(1)[1].exc = TokenEmpty
    /\ LogOf(1)[3].exc = TokenNotFound
    /\ IsTokenRequest(LogOf(1)[2])

\* C17: when the token request of a recovery (request mode after
\* TokenNotFound, reset mode after TokenEmpty) fails, the call ends there
\* with that failure: no question request follows it, and self.token is
\* still the token the call started with, the one its first request carried.
C17_FailedRecoveryPropagates ==
    /\ [](\A t \in AllCallers :
            LET log == LogOf(t)
            IN  (Len(log) >= 2 /\ log[2].exc # NoException) =>
                    /\ IsTokenRequest(log[2])
                    /\ Param(log[2].url, "command") =
                          (IF log[1].exc = TokenNotFound THEN "request" ELSE "reset")
                    /\ Len(log) = 2
                    /\ calls[t].pc = "raised"
                    /\ calls[t].exc = log[2].exc
                    /\ token = Param(log[1].url, "token"))
    /\ [][\A t \in AllCallers :
            (Len(calls'[t].log) = 2 /\ Len(LogOf(t)) = 1 /\ calls'[t].log[2].exc # NoException)
                => token' = token]_vars

C17_Witness ==
    /\ calls[1].pc = "raised"
    /\ Len(LogOf(1)) = 2
    /\ LogOf(1)[1].exc = TokenEmpty
    /\ Param(LogOf(1)[2].url, "command") = "reset"
    /\ LogOf(1)[2].exc = TokenNotFound
    /\ calls[1].exc = TokenNotFound
    /\ token = "tokenB"

\* the same after TokenNotFound, the token request refused by the server
C17_RequestModeWitness ==
    /\ calls[1].pc = "raised"
    /\ Len(LogOf(1)) = 2
    /\ LogOf(1)[1].exc = TokenNotFound
    /\ Param(LogOf(1)[2].url, "command") = "request"
    /\ LogOf(1)[2].exc.kind = "HttpError"
    /\ calls[1].exc.kind = "HttpError"

-----------------------------------------------------------------------------
(* The token over a sequence of calls *)

\* the step from frame old to frame new made one Transport call
Called(old, new) == Len(new.log) = Len(old.log) + 1
Last(frame) == frame.log[Len(frame.log)]
Acquired(e) == IsTokenRequest(e) /\ e.exc = NoException

\* what a step that takes frame old to frame new does to self.token: a
\* successful token request stores the token it returned, any other
\* Transport call leaves self.token alone, and the first question request
\* of a call carries self.token
TokenStep(old, new, before, after) ==
    Called(old, new) =>
        /\ Acquired(Last(new)) => after = Last(new).json.token
        /\ ~Acquired(Last(new)) => after = before
        /\ (IsQuestionRequest(Last(new)) /\ Len(new.log) = 1) =>
                Param(Last(new).url, "token") = before

\* C18: self.token is at every moment the token returned by the most recent
\* successful token request, of the constructor or of a recovery: only such
\* a request changes it, and each of them does. The first question request
\* of every call carries it, so a token stored by a recovery whose retry
\* failed is the one the next call sends.
C18_FirstRequestCarriesLatestToken ==
    /\ [](\A t \in AllCallers :
            LET log == LogOf(t)
            IN  /\ (calls[t].pc = "raised" /\ Len(log) = 3) =>
                        token = log[2].json.token
                /\ InCall(t) => ctor.log[1].exc = NoException)
    /\ [][/\ TokenStep(ctor, ctor', token, token')
          /\ \A t \in AllCallers : TokenStep(calls[t], calls'[t], token, token')
          /\ ((~Called(ctor, ctor')) /\ \A t \in AllCallers : ~Called(calls[t], calls'[t])) =>
                \/ token' = token
                \/ ctor.pc = "failed" /\ ctor' = NewCtor /\ token' = NoToken]_vars

C18_Witness ==
    /\ ctor.pc = "ready"
    /\ ctor.log[1].json.token = "tokenA"
    /\ calls[1].pc = "except TokenEmpty"
    /\ Len(LogOf(1)) = 1
    /\ Param(LogOf(1)[1].url, "token") = "tokenB"
    /\ token = "tokenB"

-----------------------------------------------------------------------------
(* The order of the checks of a response *)

\* the body of this response refuses the token
RefusesToken(response) ==
    /\ response.body.valid
    /\ response.body.has_rc
    /\ response.body.response_code \in {3, 4}

\* C19: the status is looked at before the body: a response whose status is
\* not 200 fails with HttpError even when its body is no JSON or carries
\* response_code 3 or 4; when it answers the first request of get_questions
\* the call ends with that HttpError after this one Transport call, with no
\* token request and no retry.
C19_StatusBeforeBody ==
    /\ \A e \in AllEntries :
          (e.response.status_code # 200 /\ (RefusesToken(e.response) \/ ~e.response.body.valid)) =>
              /\ e.exc.kind = "HttpError"
              /\ e.exc \notin {TokenNotFound, TokenEmpty, ValueError}
    /\ \A t \in AllCallers :
          LET log == LogOf(t)
          IN  (Len(log) >= 1 /\ log[1].response.status_code # 200 /\ RefusesToken(log[1].response)) =>
                  /\ Len(log) = 1
                  /\ calls[t].pc = "raised"
                  /\ calls[t].exc = log[1].exc
                  /\ calls[t].exc.kind = "HttpError"
                  /\ token = Param(log[1].url, "token")

C19_Witness ==
    /\ calls[1].pc = "raised"
    /\ Len(LogOf(1)) = 1
    /\ LogOf(1)[1].response.status_code = 404
    /\ LogOf(1)[1].response.body.response_code = 4
    /\ LogOf(1)[1].response.body.has_rc
    /\ calls[1].exc.kind = "HttpError"

-----------------------------------------------------------------------------
(* Two threads on one Client *)

\* C20: with two threads in get_questions on one Client, the token request
\* of a recovery and the retry after it are separate steps over the shared
\* self.token: every successful token request of either thread overwrites
\* self.token, and a retry carries whatever self.token holds when it is
\* sent, with nothing keeping the other thread from storing in between. So
\* the retry of a call can carry a token the call did not acquire, which
\* C20_Witness shows reached.
C20_RetryReadsSharedToken ==
    /\ [](\A t \in AllCallers :
            calls[t].pc = "retry" =>
                /\ Len(LogOf(t)) = 2
                /\ LogOf(t)[1].exc.kind \in TokenFailures
                /\ Acquired(LogOf(t)[2]))
    /\ [][/\ \A t \in AllCallers :
                (Len(calls'[t].log) = 3 /\ Len(calls[t].log) = 2) =>
                    /\ calls[t].pc = "retry"
                    /\ Param(calls'[t].log[3].url, "token") = token
                    /\ token' = token
          /\ \A t \in AllCallers :
                (Called(calls[t], calls'[t]) /\ Acquired(Last(calls'[t]))) =>
                    token' = Last(calls'[t]).json.token]_vars

\* both first requests failed with a token failure, thread 1 stored tokenA,
\* thread 2 stored tokenB over it, and thread 1 retried with tokenB
C20_Witness ==
    /\ Len(LogOf(1)) = 3
    /\ Len(LogOf(2)) >= 2
    /\ LogOf(1)[1].exc.kind \in TokenFailures
    /\ LogOf(2)[1].exc.kind \in TokenFailures
    /\ Acquired(LogOf(1)[2])
    /\ LogOf(1)[2].json.token = "tokenA"
    /\ Acquired(LogOf(2)[2])
    /\ LogOf(2)[2].json.token = "tokenB"
    /\ Param(LogOf(1)[3].url, "token") = "tokenB"

====
